---- MODULE Spec2Model ----
(***************************************************************************)
(* State-machine model of the two Lambda handlers of cdk-python:           *)
(*   src/lambda/02_api/index.py   the Resource API handler (users CRUD)    *)
(*   src/lambda/01_test/index.py  the upload-notification handler          *)
(* The PostgreSQL server, the secret store and the clock are the           *)
(* environment: every call into them either succeeds or raises.            *)
(***************************************************************************)
EXTENDS Integers, Sequences, FiniteSets, TLC

(***************************************************************************)
(* Bounds of the model.                                                    *)
(***************************************************************************)
\* ids the users_id_seq sequence may hand out before inserts are refused
MaxId == 2
\* largest clock reading; a statement that needs a later reading is refused
MaxClock == 3
\* invocations of the API handler in one behaviour
MaxRequests == 3
\* records in one upload-notification batch
MaxBatch == 2

\* concurrent instances of the API handler
Procs == {1, 2}

\* Python's None where a value or a dict is expected
None == [none |-> TRUE]
\* marks a key a JSON object does not carry
Missing == "<missing>"
Names == {"Ann", "Bob"}
Emails == {"ann@x.com", "bob@x.com"}

Methods == {"GET", "POST", "PUT", "DELETE", "PATCH"}
Paths == {"/users", "/users/{id}", "/users/1"}
\* pathParameters['id'] as the string API Gateway passes, one character per element
IdStrings == {<<>>, <<"1">>, <<"0", "2">>, <<"a">>}
\* event['pathParameters']: null, or a dict carrying id
NoParams == [x \in {} |-> 0]
PathParameters == {NoParams} \cup [id : IdStrings]
\* the parsed JSON body: each key is missing or carries a string
Bodies == [name : Names \cup {Missing}, email : Emails \cup {Missing}]
\* event['body'] when it is text that json.loads rejects
NotJson == [text |-> "{"]
Events ==
    [httpMethod : Methods, path : Paths, pathParameters : PathParameters,
     body : Bodies \cup {NotJson}]

VARIABLES
    table,      \* rows of the users table (committed state)
    seq,        \* last value of the users_id_seq sequence
    now,        \* last reading of datetime.utcnow()
    inv,        \* per handler instance: position and locals of the invocation
    nReq,       \* invocations the concurrent instances have received
    usedIds,    \* history: every id a row was ever inserted with
    n201,       \* history: creates that returned 201
    nDel200,    \* history: deletes that returned 200
    deleted200, \* history: ids whose delete returned 200
    scenario,   \* history: responses of the run while it follows the section 8 scenario
    created,    \* history: payload and id of a create answered 201, while only gets follow
    s3,         \* the upload-notification handler's invocation
    environ     \* os.environ: the variables the deployment defines

vars ==
    <<table, seq, now, inv, nReq, usedIds, n201, nDel200, deleted200, scenario, created, s3,
      environ>>
dbVars == <<table, seq, now, usedIds>>
histVars == <<n201, nDel200, deleted200, created>>

(***************************************************************************)
(* Pure helpers.                                                           *)
(***************************************************************************)
Digits == {"0", "1", "2", "3", "4", "5", "6", "7", "8", "9"}

DigitValue(c) ==
    CASE c = "0" -> 0 [] c = "1" -> 1 [] c = "2" -> 2 [] c = "3" -> 3 [] c = "4" -> 4
      [] c = "5" -> 5 [] c = "6" -> 6 [] c = "7" -> 7 [] c = "8" -> 8 [] c = "9" -> 9

\* int(user_id) is defined on non-empty digit strings; anything else raises ValueError
IsNumeric(s) == Len(s) > 0 /\ \A i \in 1..Len(s) : s[i] \in Digits

RECURSIVE ParseInt(_)
ParseInt(s) ==
    IF Len(s) = 0 THEN 0
    ELSE 10 * ParseInt(SubSeq(s, 1, Len(s) - 1)) + DigitValue(s[Len(s)])

\* datetime.isoformat(): an injective rendering of the timestamp
isoformat(t) == <<"iso", t>>

\* the dict every operation builds from a loaded User
to_dict(u) ==
    [id |-> u.id, name |-> u.name, email |-> u.email,
     created_at |-> isoformat(u.created_at), updated_at |-> isoformat(u.updated_at)]

Row(i) == CHOOSE r \in table : r.id = i
HasRow(i) == \E r \in table : r.id = i

(***************************************************************************)
(* The Resource API handler: src/lambda/02_api/index.py                    *)
(***************************************************************************)
NoBody == [name |-> Missing, email |-> Missing]

\* no User loaded
NoUser == [id |-> 0, name |-> Missing, email |-> Missing, created_at |-> 0, updated_at |-> 0]

\* an instance between invocations. pc, op, uid, body, loaded, resp are the
\* invocation's position and locals; log lists what it did to its engine and
\* session; path, httpMethod, id, json, late, scn, fetched are history: the request's
\* route, the kind of its path parameter id and whether its body is absent or JSON,
\* whether it is a get of an id whose
\* delete had returned 200, whether it is a step of the section 8 scenario, and
\* whether it asked the secret store for the secret
Idle ==
    [pc |-> "idle", op |-> "none", path |-> "", httpMethod |-> "", uid |-> 0,
     body |-> NoBody, loaded |-> NoUser, resp |-> None, log |-> <<>>, late |-> FALSE,
     scn |-> FALSE, fetched |-> FALSE, id |-> "unread", json |-> TRUE]

\* the environment variable that names the secret
SecretArnVar == "DB_SECRET_ARN"

\* os.environ['DB_SECRET_ARN'] of get_db_secret, line 63, with the variable unset
NoSecretArn == "KeyError: DB_SECRET_ARN"

\* raise ValueError("DB_SECRET_ARN environment variable is not set"), line 28 of
\* the notification handler
NoSecretArnS3 == "ValueError: DB_SECRET_ARN"

\* exceptions raised by the environment rather than by the request's content
Faults == {"OperationalError", "ClientError", NoSecretArn}

ErrorBody(e) == [message |-> "Internal server error", error |-> e]
NotFoundBody == [message |-> "User not found"]
DeletedBody == [message |-> "User deleted successfully"]
EmptyBody == [x \in {} |-> None]

Faulted(r) == r.status = 500 /\ r.body.error \in Faults

\* user_id = path_parameters.get('id') if path_parameters else None; None and ""
\* are told apart by nothing but `if not user_id`, and are both the empty string here
user_id(ev) ==
    IF "id" \in DOMAIN ev.pathParameters THEN ev.pathParameters.id ELSE <<>>

\* truthiness of user_id in `if not user_id`
Truthy(x) == x # <<>>

\* what the path parameter id of a request is to the handler: missing (None or ""),
\* text that int() accepts, or other text
IdKind(x) ==
    IF ~Truthy(x) THEN "missing" ELSE IF IsNumeric(x) THEN "numeric" ELSE "non-numeric"

\* Route with the `if not user_id` check made before the path is matched
Route_idfirst(ev) ==
    IF ~Truthy(user_id(ev)) THEN "ValueError"
    ELSE IF ev.path = "/users" THEN
        IF ev.httpMethod = "POST" THEN "create"
        ELSE IF ev.httpMethod = "GET" THEN "list"
        ELSE "none"
    ELSE IF ev.path = "/users/{id}" THEN
        IF ev.httpMethod = "GET" THEN "get"
        ELSE IF ev.httpMethod = "PUT" THEN "update"
        ELSE IF ev.httpMethod = "DELETE" THEN "delete"
        ELSE "none"
    ELSE "none"

\* Route with the PUT and DELETE branches exchanged
Route_swapped(ev) ==
    IF ev.path = "/users" THEN
        IF ev.httpMethod = "POST" THEN "create"
        ELSE IF ev.httpMethod = "GET" THEN "list"
        ELSE "none"
    ELSE IF ev.path = "/users/{id}" THEN
        IF ~Truthy(user_id(ev)) THEN "ValueError"
        ELSE IF ev.httpMethod = "GET" THEN "get"
        ELSE IF ev.httpMethod = "PUT" THEN "delete"
        ELSE IF ev.httpMethod = "DELETE" THEN "update"
        ELSE "none"
    ELSE "none"

\* the if/elif chain of handler: the operation a request is dispatched to
Route(ev) ==
    IF ev.path = "/users" THEN
        IF ev.httpMethod = "POST" THEN "create"
        ELSE IF ev.httpMethod = "GET" THEN "list"
        ELSE "none"
    ELSE IF ev.path = "/users/{id}" THEN
        IF ~Truthy(user_id(ev)) THEN "ValueError"
        ELSE IF ev.httpMethod = "GET" THEN "get"
        ELSE IF ev.httpMethod = "PUT" THEN "update"
        ELSE IF ev.httpMethod = "DELETE" THEN "delete"
        ELSE "none"
    ELSE "none"

\* SuccessStatus without the not-found branches
SuccessStatus_found(op, result) == IF op = "create" THEN 201 ELSE 200

\* the status the handler answers with when the operation returned `result`
SuccessStatus(op, result) ==
    IF op = "create" THEN 201
    ELSE IF op = "list" THEN 200
    ELSE IF op \in {"get", "update"} THEN (IF result # None THEN 200 ELSE 404)
    ELSE IF result.deleted THEN 200 ELSE 404

SuccessBody(op, result) ==
    IF op \in {"create", "list"} THEN result
    ELSE IF op \in {"get", "update"} THEN (IF result # None THEN result ELSE NotFoundBody)
    ELSE IF result.deleted THEN DeletedBody ELSE NotFoundBody

\* the section 8 scenario, request paths as written
ScenarioRequests ==
    << [httpMethod |-> "POST", path |-> "/users", pathParameters |-> NoParams,
        body |-> [name |-> "Ann", email |-> "ann@x.com"]],
       [httpMethod |-> "GET", path |-> "/users/1",
        pathParameters |-> [id |-> <<"1">>], body |-> NoBody],
       [httpMethod |-> "DELETE", path |-> "/users/1",
        pathParameters |-> [id |-> <<"1">>], body |-> NoBody],
       [httpMethod |-> "GET", path |-> "/users/1",
        pathParameters |-> [id |-> <<"1">>], body |-> NoBody] >>

ScenarioOff == [on |-> FALSE, resps |-> <<>>]
ScenarioThen(r) == [scenario EXCEPT !.resps = Append(@, r)]

\* whether the invocation of request d is the next step of the scenario
ScenarioStep(p, d) ==
    /\ scenario.on
    /\ Len(scenario.resps) + 1 \in d.script
    /\ \A q \in Procs \ {p} : inv[q].pc \in {"idle", "done"}

\* except/finally of get_db_session: what it does to the resources it holds
get_db_session_except(hasSession) == IF hasSession THEN <<"rollback">> ELSE <<>>

\* get_db_session_finally with the engine's disposal made an elif of the close
get_db_session_finally_elif(hasSession, hasEngine) ==
    IF hasSession THEN <<"close">> ELSE IF hasEngine THEN <<"dispose">> ELSE <<>>

get_db_session_finally(hasSession, hasEngine) ==
    (IF hasSession THEN <<"close">> ELSE <<>>) \o (IF hasEngine THEN <<"dispose">> ELSE <<>>)

\* the invocation ends: the handler returns (st, bd) having logged lg
Finish(p, st, bd, lg) ==
    LET r == [status |-> st, body |-> bd] IN
    /\ inv' = [inv EXCEPT ![p] = [@ EXCEPT !.pc = "done", !.resp = r, !.log = lg,
                                            !.body = NoBody, !.loaded = NoUser]]
    /\ created' = IF st = 201
                  THEN [NoUser EXCEPT !.id = bd.id, !.name = inv[p].body.name,
                                      !.email = inv[p].body.email]
                  ELSE created
    /\ scenario' = IF inv[p].scn
                   THEN (IF Faulted(r) THEN ScenarioOff ELSE ScenarioThen(r))
                   ELSE scenario
    /\ n201' = IF st = 201 THEN n201 + 1 ELSE n201
    /\ nDel200' = IF inv[p].op = "delete" /\ st = 200 THEN nDel200 + 1 ELSE nDel200
    /\ deleted200' = IF inv[p].op = "delete" /\ st = 200
                     THEN deleted200 \cup {inv[p].uid} ELSE deleted200

\* get_db_session lines 49-58 and handler lines 189-211: the operation returned
\* result; the final commit, the release, the response
Return(p, result) ==
    \/ Finish(p, 500, ErrorBody("OperationalError"),
              inv[p].log \o <<"commit failed">> \o get_db_session_except(TRUE)
                  \o get_db_session_finally(TRUE, TRUE))
    \/ Finish(p, SuccessStatus(inv[p].op, result), SuccessBody(inv[p].op, result),
              inv[p].log \o <<"commit">> \o get_db_session_finally(TRUE, TRUE))

\* an exception propagates out of the unit of work: rollback, release, 500
Raise(p, e) ==
    Finish(p, 500, ErrorBody(e),
           inv[p].log \o get_db_session_except(TRUE) \o get_db_session_finally(TRUE, TRUE))

\* get_db_secret with every variable taken as set
get_db_secret_configured_any == TRUE

\* get_db_secret, line 63 (line 26 of the notification handler): the variable is set
get_db_secret_configured == SecretArnVar \in environ

\* get_db_session, lines 33-48: the outcomes of fetching the secret, creating the
\* engine, opening the session and creating the tables; each with what the
\* except and finally clauses then did
get_db_session ==
    IF get_db_secret_configured
    THEN { [error |-> "ClientError", fetched |-> TRUE,
            log |-> get_db_session_except(FALSE) \o get_db_session_finally(FALSE, FALSE)],
           [error |-> "OperationalError", fetched |-> TRUE,
            log |-> <<"create_engine", "Session">> \o get_db_session_except(TRUE)
                        \o get_db_session_finally(TRUE, TRUE)],
           [error |-> "none", fetched |-> TRUE, log |-> <<"create_engine", "Session">>] }
    ELSE { [error |-> NoSecretArn, fetched |-> FALSE,
            log |-> get_db_session_except(FALSE) \o get_db_session_finally(FALSE, FALSE)] }

\* Dispatch with an id that int() rejects taken as 0 instead of raising
Dispatch_lenient(ev) ==
    LET r == Route(ev)
        byId == r \in {"get", "update", "delete"}
        json == ev.body = NotJson
        bad == json \/ r = "ValueError"
    IN  [op |-> IF bad THEN "none" ELSE r,
         path |-> ev.path,
         httpMethod |-> ev.httpMethod,
         id |-> IF ev.path = "/users/{id}" THEN IdKind(user_id(ev)) ELSE "unread",
         json |-> ~json,
         error |-> IF json THEN "JSONDecodeError" ELSE IF bad THEN "ValueError" ELSE "none",
         uid |-> IF byId /\ ~bad /\ IsNumeric(user_id(ev)) THEN ParseInt(user_id(ev)) ELSE 0,
         body |-> IF r \in {"create", "update"} /\ ~bad THEN ev.body ELSE NoBody,
         script |-> {k \in DOMAIN ScenarioRequests : ScenarioRequests[k] = ev}]

\* handler, lines 142-187: what the handler makes of the event before it calls an
\* operation: the operation and its arguments, or the error of a body that is not
\* JSON (line 152) or of a missing or non-numeric id (lines 165-183); id is the
\* kind of path parameter a request on /users/{id} carries, json whether its body
\* is absent or JSON, and script is where the event stands in the section 8 scenario
Dispatch(ev) ==
    LET r == Route(ev)
        byId == r \in {"get", "update", "delete"}
        json == ev.body = NotJson
        bad == json \/ r = "ValueError" \/ (byId /\ ~IsNumeric(user_id(ev)))
    IN  [op |-> IF bad THEN "none" ELSE r,
         path |-> ev.path,
         httpMethod |-> ev.httpMethod,
         id |-> IF ev.path = "/users/{id}" THEN IdKind(user_id(ev)) ELSE "unread",
         json |-> ~json,
         error |-> IF json THEN "JSONDecodeError" ELSE IF bad THEN "ValueError" ELSE "none",
         uid |-> IF byId /\ ~bad THEN ParseInt(user_id(ev)) ELSE 0,
         body |-> IF r \in {"create", "update"} /\ ~bad THEN ev.body ELSE NoBody,
         script |-> {k \in DOMAIN ScenarioRequests : ScenarioRequests[k] = ev}]

Requests == {Dispatch(ev) : ev \in Events}

\* no invocation of the API handler so far
Untouched ==
    /\ scenario = [on |-> TRUE, resps |-> <<>>]
    /\ \A p \in Procs : inv[p].pc = "idle"

\* The two functions share no state: a behaviour drives one of them, so neither
\* handler starts once the other has run.

\* handler, lines 137-211, up to the first database round trip of the operation:
\* parse the event, dispatch, enter the operation's `with get_db_session()`; a
\* request that matches no route, or fails before or while the scope opens, is
\* answered at once
handler(p) ==
    /\ inv[p].pc = "idle"
    /\ s3.pc = "idle"
    /\ \E d \in Requests :
        LET step == ScenarioStep(p, d)
            fresh == [Idle EXCEPT !.scn = step, !.op = d.op, !.path = d.path,
                                  !.httpMethod = d.httpMethod, !.uid = d.uid, !.id = d.id,
                                  !.json = d.json]
            answer(st, bd, lg) ==
                LET a == [status |-> st, body |-> bd] IN
                /\ inv' = [inv EXCEPT ![p] = [fresh EXCEPT !.pc = "done", !.resp = a,
                                                 !.log = lg]]
                /\ scenario' = IF step /\ ~Faulted(a) THEN ScenarioThen(a)
                               ELSE ScenarioOff
        IN
        /\ created' = IF d.op = "get" THEN created ELSE NoUser
        /\  IF d.error # "none" THEN answer(500, ErrorBody(d.error), <<>>)
            ELSE IF d.op = "none" THEN answer(200, EmptyBody, <<>>)
            ELSE \E o \in get_db_session :
                    IF o.error # "none"
                    THEN /\ inv' = [inv EXCEPT ![p] =
                              [fresh EXCEPT !.pc = "done", !.log = o.log,
                                  !.fetched = o.fetched,
                                  !.resp = [status |-> 500, body |-> ErrorBody(o.error)]]]
                         /\ scenario' = ScenarioOff
                    ELSE /\ inv' = [inv EXCEPT ![p] =
                              [fresh EXCEPT !.pc = "body", !.body = d.body, !.log = o.log,
                                  !.fetched = o.fetched,
                                  !.late = d.op = "get" /\ d.uid \in deleted200]]
                         /\ scenario' = IF step THEN scenario ELSE ScenarioOff
    /\ UNCHANGED <<dbVars, n201, nDel200, deleted200, s3, environ>>

\* handler, lines 189-197 and 201-211: the response is returned, and the instance
\* keeps nothing of the invocation
handler_return(p) ==
    /\ inv[p].pc = "done"
    /\ inv' = [inv EXCEPT ![p] = Idle]
    /\ UNCHANGED <<dbVars, nReq, histVars, scenario, s3, environ>>

(***************************************************************************)
(* The users table as PostgreSQL keeps it (User, lines 20-27).             *)
(***************************************************************************)
\* AssignedId taken from the rows present instead of from the sequence
AssignedId_max ==
    IF table = {} THEN 1
    ELSE (CHOOSE r \in table : \A u \in table : u.id <= r.id).id + 1

\* id = Column(Integer, primary_key=True): the next value of users_id_seq
AssignedId == seq + 1

\* UniqueViolation of a column declared without unique=True
UniqueViolation_off(email, self) == FALSE

\* email = Column(String(255), unique=True): another row already carries the email
UniqueViolation(email, self) == \E r \in table : r.email = email /\ r.id # self

\* default=datetime.utcnow on created_at: the first clock reading of the INSERT
CreatedAtDefault == now + 1

\* default=datetime.utcnow on updated_at: a second clock reading, taken after the
\* first; the clock may or may not have advanced in between
UpdatedAtDefaults(c) == {c, c + 1}

\* onupdate=datetime.utcnow: the clock reading of the UPDATE
OnUpdate == now + 1

\* the columns an UPDATE sets: an attribute assigned the value it was loaded with has
\* no net change and is left out of the statement
Dirty(loaded, body) ==
    {c \in {"name", "email"} : body[c] # Missing /\ body[c] # loaded[c]}

(***************************************************************************)
(* The five operations, one action per database round trip.                *)
(***************************************************************************)
\* create_user, lines 70-75: build the User, add it, commit (INSERT, COMMIT)
create_user(p) ==
    /\ inv[p].pc = "body" /\ inv[p].op = "create"
    /\ LET b == inv[p].body IN
       \/ /\ Missing \in {b.name, b.email}
          /\ Raise(p, "KeyError")
          /\ UNCHANGED dbVars
       \/ /\ Raise(p, "OperationalError")
          /\ UNCHANGED dbVars
       \/ /\ Missing \notin {b.name, b.email}
          /\ AssignedId <= MaxId
          /\ \E u \in UpdatedAtDefaults(CreatedAtDefault) :
                /\ u <= MaxClock
                /\ now' = u
                /\ seq' = AssignedId
                /\ IF UniqueViolation(b.email, AssignedId)
                   THEN /\ Raise(p, "IntegrityError")
                        /\ UNCHANGED <<table, usedIds>>
                   ELSE /\ table' = table \cup
                               {[id |-> AssignedId, name |-> b.name, email |-> b.email,
                                 created_at |-> CreatedAtDefault, updated_at |-> u]}
                        /\ usedIds' = usedIds \cup {AssignedId}
                        /\ inv' = [inv EXCEPT ![p].pc = "reload", ![p].uid = AssignedId]
                        /\ UNCHANGED <<scenario, histVars>>
    /\ UNCHANGED <<nReq, s3, environ>>

\* session.query(User).filter(User.id == user_id).first() of get_user,
\* update_user and delete_user
query_first(p) ==
    /\ inv[p].pc = "body" /\ inv[p].op \in {"get", "update", "delete"}
    /\ \/ Raise(p, "OperationalError")
       \/ /\ HasRow(inv[p].uid)
          /\ IF inv[p].op = "get"
             THEN Return(p, to_dict(Row(inv[p].uid)))
             ELSE /\ inv' = [inv EXCEPT ![p].pc = "flush", ![p].loaded = Row(inv[p].uid)]
                  /\ UNCHANGED <<scenario, histVars>>
       \/ /\ ~HasRow(inv[p].uid)
          /\ Return(p, IF inv[p].op = "delete" THEN [deleted |-> FALSE] ELSE None)
    /\ UNCHANGED <<dbVars, nReq, s3, environ>>

\* update_user, lines 103-105: assign the attributes, commit (UPDATE, COMMIT)
update_user(p) ==
    /\ inv[p].pc = "flush" /\ inv[p].op = "update"
    /\ LET d == Dirty(inv[p].loaded, inv[p].body)
           i == inv[p].uid
       IN
       \/ /\ Raise(p, "OperationalError")
          /\ UNCHANGED dbVars
       \/ /\ d = {}
          /\ inv' = [inv EXCEPT ![p].pc = "reload"]
          /\ UNCHANGED <<dbVars, scenario, histVars>>
       \/ /\ d # {}
          /\ OnUpdate <= MaxClock
          /\ now' = OnUpdate
          /\ UNCHANGED <<seq, usedIds>>
          /\ IF ~HasRow(i)
             THEN Raise(p, "StaleDataError") /\ UNCHANGED table
             ELSE IF "email" \in d /\ UniqueViolation(inv[p].body.email, i)
             THEN Raise(p, "IntegrityError") /\ UNCHANGED table
             ELSE /\ table' = (table \ {Row(i)}) \cup
                        {[Row(i) EXCEPT
                            !.name = IF "name" \in d THEN inv[p].body.name ELSE @,
                            !.email = IF "email" \in d THEN inv[p].body.email ELSE @,
                            !.updated_at = OnUpdate]}
                  /\ inv' = [inv EXCEPT ![p].pc = "reload"]
                  /\ UNCHANGED <<scenario, histVars>>
    /\ UNCHANGED <<nReq, s3, environ>>

\* delete_user, lines 120-122: delete, commit (DELETE, COMMIT); a DELETE that
\* matches no row only warns
delete_user(p) ==
    /\ inv[p].pc = "flush" /\ inv[p].op = "delete"
    /\ \/ /\ Raise(p, "OperationalError")
          /\ UNCHANGED table
       \/ /\ table' = {r \in table : r.id # inv[p].uid}
          /\ Return(p, [deleted |-> TRUE])
    /\ UNCHANGED <<seq, now, usedIds, nReq, s3, environ>>

\* create_user lines 76-82, update_user lines 106-112: commit expired the User, so
\* reading its attributes loads the row again
refresh(p) ==
    /\ inv[p].pc = "reload"
    /\ \/ Raise(p, "OperationalError")
       \/ ~HasRow(inv[p].uid) /\ Raise(p, "ObjectDeletedError")
       \/ HasRow(inv[p].uid) /\ Return(p, to_dict(Row(inv[p].uid)))
    /\ UNCHANGED <<dbVars, nReq, s3, environ>>

\* list_users, lines 128-135
list_users(p) ==
    /\ inv[p].pc = "body" /\ inv[p].op = "list"
    /\ \/ Raise(p, "OperationalError")
       \/ Return(p, [users |-> {to_dict(r) : r \in table}])
    /\ UNCHANGED <<dbVars, nReq, s3, environ>>

(***************************************************************************)
(* The upload-notification handler: src/lambda/01_test/index.py            *)
(***************************************************************************)
\* event names, one token per element
EventNames ==
    {<<"ObjectCreated", ":", "Put">>, <<"ObjectCreated">>, <<"ObjectRemoved", ":", "Delete">>}
\* a record whose eventName key is missing
NoEventName == <<Missing>>
Buckets == {"uploads"}
Keys == {"a.csv", "b.csv"}
S3Records ==
    [eventName : EventNames \cup {NoEventName}, bucket : Buckets \cup {Missing},
     key : Keys \cup {Missing}]

RECURSIVE SeqsUpTo(_, _)
SeqsUpTo(S, n) ==
    IF n = 0 THEN {<<>>}
    ELSE LET shorter == SeqsUpTo(S, n - 1)
         IN  shorter \cup {Append(q, x) : q \in {t \in shorter : Len(t) = n - 1}, x \in S}

\* the events delivered: a batch of records, or an event without the Records key
S3Events ==
    {[hasRecords |-> TRUE, Records |-> rs] : rs \in SeqsUpTo(S3Records, MaxBatch)}
    \cup {[hasRecords |-> FALSE, Records |-> <<>>]}

\* startswith comparing the first element only
startswith_head(str, prefix) == Len(str) >= 1 /\ str[1] = prefix[1]

\* str.startswith
startswith(str, prefix) ==
    Len(str) >= Len(prefix) /\ SubSeq(str, 1, Len(prefix)) = prefix

ObjectCreatedPrefix == <<"ObjectCreated", ":">>

\* parse_records skipping a record that lacks a field instead of raising
RECURSIVE parse_records_skip(_, _)
parse_records_skip(rs, files) ==
    IF rs = <<>> THEN [error |-> "none", files |-> files]
    ELSE LET r == Head(rs) IN
         IF /\ r.eventName # NoEventName
            /\ startswith(r.eventName, ObjectCreatedPrefix)
            /\ Missing \notin {r.bucket, r.key}
         THEN parse_records_skip(Tail(rs), Append(files, [bucket |-> r.bucket, key |-> r.key]))
         ELSE parse_records_skip(Tail(rs), files)

\* parse_s3_event, the loop of lines 106-111 over records rs, files found so far
RECURSIVE parse_records(_, _)
parse_records(rs, files) ==
    IF rs = <<>> THEN [error |-> "none", files |-> files]
    ELSE LET r == Head(rs) IN
         IF r.eventName = NoEventName THEN [error |-> "KeyError", files |-> <<>>]
         ELSE IF startswith(r.eventName, ObjectCreatedPrefix)
         THEN IF Missing \in {r.bucket, r.key}
              THEN [error |-> "KeyError", files |-> <<>>]
              ELSE parse_records(Tail(rs), Append(files, [bucket |-> r.bucket, key |-> r.key]))
         ELSE parse_records(Tail(rs), files)

\* parse_s3_event, lines 103-116
parse_s3_event(event) ==
    IF ~event.hasRecords THEN [error |-> "KeyError", files |-> <<>>]
    ELSE parse_records(event.Records, <<>>)

\* get_db_connection as process_file uses it, lines 42-62 and 74-87: the outcomes
\* of fetching the secret, creating the engine, connecting and running the two
\* queries, each with what the `with` and the finally clause then did
\* the finally clause of get_db_connection, lines 60-62
get_db_connection_finally(hasEngine) == IF hasEngine THEN <<"dispose">> ELSE <<>>

get_db_connection ==
    IF get_db_secret_configured
    THEN { [error |-> "ClientError", fetched |-> 1, log |-> get_db_connection_finally(FALSE)],
           [error |-> "OperationalError", fetched |-> 1,
            log |-> <<"create_engine">> \o get_db_connection_finally(TRUE)],
           [error |-> "ProgrammingError", fetched |-> 1,
            log |-> <<"create_engine", "connect", "close">>
                        \o get_db_connection_finally(TRUE)],
           [error |-> "none", fetched |-> 1,
            log |-> <<"create_engine", "connect", "close">>
                        \o get_db_connection_finally(TRUE)] }
    ELSE { [error |-> NoSecretArnS3, fetched |-> 0,
            log |-> get_db_connection_finally(FALSE)] }

S3ErrorBody(e) == [message |-> "Error processing S3 event", error |-> e]
S3SuccessBody(n) ==
    [message |-> "Successfully processed S3 event and connected to database",
     filesProcessed |-> n]

\* the handler between invocations. fetched and calls are history: how often the
\* invocation asked the secret store for the secret, and how often it called
\* process_file
S3Idle ==
    [pc |-> "idle", event |-> [hasRecords |-> FALSE, Records |-> <<>>], files |-> <<>>,
     processed |-> <<>>, log |-> <<>>, resp |-> None, fetched |-> 0, calls |-> 0]

\* handler, lines 132-135: parse the event
handler_s3 ==
    /\ s3.pc = "idle"
    /\ Untouched
    /\ \E ev \in S3Events :
        LET parsed == parse_s3_event(ev) IN
        s3' = IF parsed.error # "none"
              THEN [S3Idle EXCEPT !.pc = "done", !.event = ev,
                        !.resp = [status |-> 500, body |-> S3ErrorBody(parsed.error)]]
              ELSE [S3Idle EXCEPT !.pc = "loop", !.event = ev, !.files = parsed.files]
    /\ UNCHANGED <<dbVars, inv, nReq, histVars, scenario, environ>>

\* handler, lines 138-143, and process_file: one file of the loop
process_file ==
    /\ s3.pc = "loop"
    /\ Len(s3.processed) < Len(s3.files)
    /\ \E o \in get_db_connection :
        s3' = IF o.error # "none"
              THEN [s3 EXCEPT !.pc = "done", !.log = o.log,
                        !.fetched = @ + o.fetched, !.calls = @ + 1,
                        !.resp = [status |-> 500, body |-> S3ErrorBody(o.error)]]
              ELSE [s3 EXCEPT !.log = o.log,
                        !.fetched = @ + o.fetched, !.calls = @ + 1,
                        !.processed = Append(@, s3.files[Len(s3.processed) + 1])]
    /\ UNCHANGED <<dbVars, inv, nReq, histVars, scenario, environ>>

\* handler, lines 145-151: every file was processed
handler_s3_return ==
    /\ s3.pc = "loop"
    /\ Len(s3.processed) = Len(s3.files)
    /\ s3' = [s3 EXCEPT !.pc = "done",
                  !.resp = [status |-> 200, body |-> S3SuccessBody(Len(s3.files))]]
    /\ UNCHANGED <<dbVars, inv, nReq, histVars, scenario, environ>>

\* handler, lines 145-161: the response is returned
handler_s3_end ==
    /\ s3.pc = "done"
    /\ s3' = S3Idle
    /\ UNCHANGED <<dbVars, inv, nReq, histVars, scenario, environ>>

Init ==
    /\ table = {}
    /\ seq = 0
    /\ now = 0
    /\ inv = [p \in Procs |-> Idle]
    /\ nReq = 0
    /\ usedIds = {}
    /\ n201 = 0
    /\ nDel200 = 0
    /\ deleted200 = {}
    /\ scenario = [on |-> TRUE, resps |-> <<>>]
    /\ created = NoUser
    /\ s3 = S3Idle
    /\ environ \in SUBSET {SecretArnVar}

\* one instance of a handler, one invocation after the other
Next ==
    \/ handler(1) /\ UNCHANGED nReq
    \/ handler_return(1)
    \/ create_user(1)
    \/ query_first(1)
    \/ update_user(1)
    \/ delete_user(1)
    \/ refresh(1)
    \/ list_users(1)
    \/ handler_s3
    \/ process_file
    \/ handler_s3_return
    \/ handler_s3_end

Spec == Init /\ [][Next]_vars

\* the platform runs instances of the API handler concurrently, their database
\* round trips interleaved; MaxRequests invocations in all
NextConcurrent ==
    \E p \in Procs :
        \/ nReq < MaxRequests /\ nReq' = nReq + 1 /\ handler(p)
        \/ handler_return(p)
        \/ create_user(p)
        \/ query_first(p)
        \/ update_user(p)
        \/ delete_user(p)
        \/ refresh(p)
        \/ list_users(p)

SpecConcurrent == Init /\ [][NextConcurrent]_vars

(***************************************************************************)
(* Properties.                                                             *)
(***************************************************************************)
Count(log, x) == Cardinality({i \in DOMAIN log : log[i] = x})
IndexOf(log, x) == CHOOSE i \in DOMAIN log : log[i] = x

\* instance p takes the step that ends its invocation
Completes(p) == inv[p].pc # "done" /\ inv'[p].pc = "done"

\* the operation ran to its end: no exception reached the handler's boundary
Succeeded(r) == r.status # 500

IsUserRecord(b) == DOMAIN b = {"id", "name", "email", "created_at", "updated_at"}

\* the dispatch table of section 4.4
RouteTable ==
    { [path |-> "/users", httpMethod |-> "POST", op |-> "create"],
      [path |-> "/users", httpMethod |-> "GET", op |-> "list"],
      [path |-> "/users/{id}", httpMethod |-> "GET", op |-> "get"],
      [path |-> "/users/{id}", httpMethod |-> "PUT", op |-> "update"],
      [path |-> "/users/{id}", httpMethod |-> "DELETE", op |-> "delete"] }

\* what the successful response of operation op must be, the invocation ending in
\* this step; the id named by the request exists
C1_Response(p, op) ==
    LET r == inv'[p].resp
        i == inv[p].uid
    IN  CASE op = "create" ->
               /\ r.status = 201
               /\ r.body = to_dict(Row(i))
               /\ r.body.name = inv[p].body.name /\ r.body.email = inv[p].body.email
          [] op = "list" ->
               r.status = 200 /\ r.body = [users |-> {to_dict(u) : u \in table}]
          [] op = "get" ->
               HasRow(i) => r.status = 200 /\ r.body = to_dict(Row(i))
          [] op = "update" ->
               HasRow(i) =>
                   /\ r.status = 200
                   /\ r.body = to_dict(Row(i))
                   /\ inv[p].body.name # Missing => r.body.name = inv[p].body.name
                   /\ inv[p].body.email # Missing => r.body.email = inv[p].body.email
          [] op = "delete" ->
               HasRow(i) =>
                   /\ r.status = 200
                   /\ r.body = DeletedBody
                   /\ table' = {u \in table : u.id # i}

\* C1: each of the five recognized {path, method} pairs dispatches to exactly its
\* own operation; when the operation succeeds the response is the dispatch
\* table's: 201 and the created record for POST /users, 200 and all records for
\* GET /users, 200 and the record, the updated record, the confirmation message
\* for GET, PUT, DELETE on /users/{id} with an existing id. No request runs more
\* than one operation (it opens at most one session scope).
C1_Dispatch ==
    [][\A p \in Procs :
        /\ \A t \in RouteTable :
              (inv'[p].pc \in {"body", "flush", "reload"}
                  /\ inv'[p].path = t.path /\ inv'[p].httpMethod = t.httpMethod)
              => inv'[p].op = t.op
        /\ \A t \in RouteTable :
              (Completes(p) /\ Succeeded(inv'[p].resp)
                  /\ inv'[p].path = t.path /\ inv'[p].httpMethod = t.httpMethod)
              => inv'[p].op = t.op /\ C1_Response(p, t.op)
        /\ Count(inv'[p].log, "create_engine") <= 1
        /\ (inv'[p].op = "none" => inv'[p].log = <<>>)
    ]_vars

\* a DELETE on /users/{id} of an existing id was answered 200
C1_Witness ==
    \E p \in Procs :
        /\ inv[p].pc = "done" /\ inv[p].op = "delete"
        /\ inv[p].path = "/users/{id}" /\ inv[p].httpMethod = "DELETE"
        /\ inv[p].resp = [status |-> 200, body |-> DeletedBody]
        /\ inv[p].uid \in usedIds

\* the section 8 scenario's responses, in order
C2_Expected(k, r) ==
    CASE k = 1 -> r.status = 201 /\ IsUserRecord(r.body) /\ r.body.id = 1
      [] k = 2 -> /\ r.status = 200
                  /\ IsUserRecord(r.body)
                  /\ r.body.name = "Ann" /\ r.body.email = "ann@x.com"
      [] k = 3 -> r.status = 200
      [] k = 4 -> r.status = 404

\* C2: from an empty users table the requests POST /users {Ann, ann@x.com},
\* GET /users/1, DELETE /users/1, GET /users/1 (paths as written, path parameter
\* id = 1) are answered 201 with id 1, 200 with the same name and email, 200, 404
C2_Scenario ==
    scenario.on => \A k \in DOMAIN scenario.resps : C2_Expected(k, scenario.resps[k])

\* the scope's log: acquire names what acquires the session or connection
C3_Scope(log, acquire, returned) ==
    /\ Count(log, "create_engine") <= 1 /\ Count(log, acquire) <= 1
    /\ Count(log, "close") <= Count(log, acquire)
    /\ Count(log, "dispose") <= Count(log, "create_engine")
    /\ Count(log, "close") = 1 => IndexOf(log, acquire) < IndexOf(log, "close")
    /\ Count(log, "dispose") = 1 => IndexOf(log, "create_engine") < IndexOf(log, "dispose")
    /\ returned =>
          /\ Count(log, "close") = Count(log, acquire)
          /\ Count(log, "dispose") = Count(log, "create_engine")
    /\ Count(log, "commit failed") = 1 =>
          LET i == IndexOf(log, "commit failed")
          IN  SubSeq(log, i + 1, Len(log)) = <<"rollback", "close", "dispose">>

\* C3: on every exit path of get_db_session and get_db_connection (normal return,
\* exception in the unit of work, failure creating the tables, failure of the
\* final commit) each session and engine acquired is released exactly once,
\* nothing never acquired is released, none is open when the handler returns, and
\* a failed commit is followed by rollback, then the release
C3_Release ==
    /\ \A p \in Procs :
          /\ C3_Scope(inv[p].log, "Session", inv[p].pc \in {"done", "idle"})
          /\ (inv[p].pc = "done" /\ inv[p].resp.status = 500
                  /\ Count(inv[p].log, "Session") = 1)
              => /\ Count(inv[p].log, "rollback") = 1
                 /\ IndexOf(inv[p].log, "rollback") < IndexOf(inv[p].log, "close")
          /\ inv[p].pc \in {"body", "flush", "reload"}
              => inv[p].log = <<"create_engine", "Session">>
    /\ C3_Scope(s3.log, "connect", TRUE)
    /\ s3.pc = "done" /\ s3.resp.status = 200 /\ s3.files # <<>>
          => s3.log = <<"create_engine", "connect", "close", "dispose">>

\* the final commit of an invocation failed
C3_Witness ==
    \E p \in Procs :
        /\ inv[p].pc = "done"
        /\ Count(inv[p].log, "commit failed") = 1
        /\ inv[p].resp.status = 500

\* instance p takes a step
Steps(p) == inv'[p] # inv[p]

\* C4: no two User rows carry the same email, whatever creates and updates ran and
\* however concurrent invocations interleaved; a create whose email belongs to an
\* existing User, and an update that sets the email to one that belongs to
\* another User, is not answered with success and leaves the table unchanged
C4_UniqueEmail ==
    /\ [](\A r1, r2 \in table : r1.email = r2.email => r1 = r2)
    /\ [][\A p \in Procs :
            LET b == inv[p].body
                insert == /\ inv[p].pc = "body" /\ inv[p].op = "create"
                          /\ \E r \in table : r.email = b.email
                update == /\ inv[p].pc = "flush" /\ inv[p].op = "update"
                          /\ b.email # Missing /\ b.email # inv[p].loaded.email
                          /\ \E r \in table : r.email = b.email /\ r.id # inv[p].uid
            IN  (Steps(p) /\ (insert \/ update))
                => /\ table' = table
                   /\ inv'[p].pc = "done"
                   /\ inv'[p].resp.status = 500
         ]_vars

\* a create was refused for its email while another invocation was under way
C4_Witness ==
    \E p, q \in Procs :
        /\ inv[p].pc = "done" /\ inv[p].op = "create"
        /\ inv[p].resp = [status |-> 500, body |-> ErrorBody("IntegrityError")]
        /\ q # p /\ inv[q].pc \in {"body", "flush", "reload"}

\* C5: a create with name and email present and a fresh email, followed by a get of
\* the returned id, yields a record with that id, the payload's name and email, and
\* created_at equal to updated_at
C5_CreateThenGet ==
    \A p \in Procs :
        (/\ inv[p].pc = "done" /\ inv[p].op = "get"
         /\ created.id # 0 /\ inv[p].uid = created.id
         /\ ~Faulted(inv[p].resp))
        => /\ inv[p].resp.status = 200
           /\ IsUserRecord(inv[p].resp.body)
           /\ inv[p].resp.body.id = created.id
           /\ inv[p].resp.body.name = created.name
           /\ inv[p].resp.body.email = created.email
           /\ inv[p].resp.body.created_at = inv[p].resp.body.updated_at

\* C6: a successful update of an existing id, whatever its body, changes only the
\* fields the body supplies, leaves id and created_at of that User and every other
\* User unchanged, and makes updated_at strictly greater than it was
C6_Update ==
    [][\A p \in Procs :
        /\ (inv[p].op = "update" /\ inv[p].pc = "flush" /\ inv'[p].pc = "reload")
            => {u \in table' : u.id # inv[p].uid} = {u \in table : u.id # inv[p].uid}
        /\ (inv[p].op = "update" /\ inv[p].pc = "reload" /\ inv'[p].pc = "done"
                /\ inv'[p].resp.status = 200)
            => LET old == inv[p].loaded
                   new == inv'[p].resp.body
                   b == inv[p].body
               IN  /\ new.id = old.id
                   /\ new.created_at = isoformat(old.created_at)
                   /\ new.name = IF b.name = Missing THEN old.name ELSE b.name
                   /\ new.email = IF b.email = Missing THEN old.email ELSE b.email
                   /\ new.updated_at[2] > old.updated_at
    ]_vars

\* C7: get, update and delete of an id that is not in the table are answered 404
\* with {"message": "User not found"} (500 when the database or the secret store
\* fails), and the rows of the table are the same after the request as before
C7_NotFound ==
    [][\A p \in Procs :
        /\ (Steps(p) /\ inv[p].pc = "body"
                /\ inv[p].op \in {"get", "update", "delete"} /\ ~HasRow(inv[p].uid))
            => /\ table' = table
               /\ inv'[p].pc = "done"
               /\ \/ inv'[p].resp = [status |-> 404, body |-> NotFoundBody]
                  \/ Faulted(inv'[p].resp)
        /\ (Steps(p) /\ inv[p].pc = "idle") => table' = table
    ]_vars

\* a delete of an id that is not in the table was answered 404
C7_Witness ==
    \E p \in Procs :
        /\ inv[p].pc = "done" /\ inv[p].op = "delete"
        /\ inv[p].resp = [status |-> 404, body |-> NotFoundBody]
        /\ ~HasRow(inv[p].uid)

\* C8: once a delete of id i has returned 200, every get of i that starts later
\* is answered 404 (500 when the database or the secret store fails), whatever
\* requests of whatever instance happen in between; no row carries i again, and no
\* create is assigned an id a row was ever inserted with
C8_DeletePermanent ==
    /\ [](\A p \in Procs :
            (inv[p].pc = "done" /\ inv[p].op = "get" /\ inv[p].late)
            => \/ inv[p].resp = [status |-> 404, body |-> NotFoundBody]
               \/ Faulted(inv[p].resp))
    /\ [](\A i \in deleted200 : ~HasRow(i))
    /\ [][\A r \in table' : (\A u \in table : u.id # r.id) => r.id \notin usedIds]_vars

\* a get that started after the delete of its id had returned 200 was answered 404
C8_Witness ==
    \E p \in Procs :
        /\ inv[p].pc = "done" /\ inv[p].op = "get" /\ inv[p].late
        /\ inv[p].resp.status = 404
        /\ inv[p].uid \in deleted200

\* C9: from an empty table, after N creates answered 201 and M deletes answered
\* 200, with any failed, not-found, get, update and list requests in between,
\* list returns exactly N - M records
C9_ListCount ==
    \A p \in Procs :
        (inv[p].pc = "done" /\ inv[p].op = "list" /\ inv[p].resp.status = 200)
        => Cardinality(inv[p].resp.body.users) = n201 - nDel200

\* an event name that begins with "ObjectCreated:"
C10_Created(r) ==
    /\ r.eventName # NoEventName
    /\ Len(r.eventName) >= 2
    /\ r.eventName[1] = "ObjectCreated" /\ r.eventName[2] = ":"

C10_File(r) == [bucket |-> r.bucket, key |-> r.key]

RECURSIVE C10_Kept(_)
C10_Kept(rs) ==
    IF rs = <<>> THEN <<>>
    ELSE (IF C10_Created(Head(rs)) THEN <<C10_File(Head(rs))>> ELSE <<>>)
             \o C10_Kept(Tail(rs))

\* C10: the upload-notification handler keeps exactly the records whose event name
\* begins with "ObjectCreated:", processes them one at a time in batch order, and
\* returns 200 with filesProcessed the number of kept records when every step
\* succeeded, or 500 with an error message as soon as a step raised, the records
\* after the failing one left unprocessed; no exception escapes
C10_Notification ==
    LET kept == C10_Kept(s3.event.Records) IN
    /\ s3.pc = "loop" => s3.files = kept
    /\ s3.pc \in {"loop", "done"} =>
          /\ Len(s3.processed) <= Len(s3.files)
          /\ s3.processed = SubSeq(s3.files, 1, Len(s3.processed))
    /\ s3.pc = "done" =>
          \/ /\ s3.resp = [status |-> 200, body |-> S3SuccessBody(Len(kept))]
             /\ s3.files = kept
             /\ s3.processed = kept
          \/ /\ s3.resp.status = 500
             /\ DOMAIN s3.resp.body = {"message", "error"}
             /\ s3.files = <<>> \/ (s3.files = kept /\ Len(s3.processed) < Len(kept))

\* the second of two kept records raised: 500, and only the first was processed
C10_Witness ==
    /\ s3.pc = "done" /\ s3.resp.status = 500
    /\ Len(s3.files) = 2 /\ Len(s3.processed) = 1

\* the batch was failed as a whole: 500, process_file never called, the secret
\* store never asked, no engine created and no connection opened
C11_Failed ==
    /\ s3.resp.status = 500
    /\ s3.calls = 0 /\ s3.processed = <<>>
    /\ s3.fetched = 0
    /\ s3.log = <<>>

\* C11: if the event has no Records, or any record of the batch lacks eventName,
\* s3.bucket.name or s3.object.key, the response is 500 and no record of the batch
\* is processed: no secret fetched, no connection opened, also not for the
\* well-formed records before the malformed one
C11_Malformed ==
    (/\ s3.pc = "done"
     /\ \/ ~s3.event.hasRecords
        \/ \E i \in DOMAIN s3.event.Records :
              \/ s3.event.Records[i].eventName = NoEventName
              \/ Missing \in {s3.event.Records[i].bucket, s3.event.Records[i].key})
    => C11_Failed

\* C11 as amended: the same, for an event without Records, a record that lacks
\* eventName, and a record whose event name begins with "ObjectCreated:" and that
\* lacks s3.bucket.name or s3.object.key
C11_MalformedRead ==
    (/\ s3.pc = "done"
     /\ \/ ~s3.event.hasRecords
        \/ \E i \in DOMAIN s3.event.Records :
              \/ s3.event.Records[i].eventName = NoEventName
              \/ /\ C10_Created(s3.event.Records[i])
                 /\ Missing \in {s3.event.Records[i].bucket, s3.event.Records[i].key})
    => C11_Failed

\* a batch whose first record is a well-formed upload and whose second lacks its
\* key was failed with the secret store configured
C11_Witness ==
    /\ s3.pc = "done" /\ s3.resp.status = 500 /\ s3.calls = 0
    /\ SecretArnVar \in environ
    /\ s3.event.hasRecords /\ Len(s3.event.Records) = 2
    /\ C10_Created(s3.event.Records[1])
    /\ Missing \notin {s3.event.Records[1].bucket, s3.event.Records[1].key}
    /\ C10_Created(s3.event.Records[2])
    /\ s3.event.Records[2].key = Missing

\* C12: with DB_SECRET_ARN unset, every invocation of the Resource API handler and
\* of the upload-notification handler returns 500, for every request and every
\* batch, and no database connection or session is opened
C12_Unconfigured ==
    SecretArnVar \notin environ =>
        /\ \A p \in Procs :
              inv[p].pc = "done" =>
                  /\ inv[p].resp.status = 500
                  /\ Count(inv[p].log, "create_engine") = 0
                  /\ Count(inv[p].log, "Session") = 0
        /\ s3.pc = "done" =>
              /\ s3.resp.status = 500
              /\ Count(s3.log, "create_engine") = 0
              /\ Count(s3.log, "connect") = 0

\* C12 as amended: with DB_SECRET_ARN unset, every invocation that reaches the
\* secret fetch returns 500: every request that dispatches to one of the five
\* operations, and every batch that keeps at least one record. No invocation asks
\* the secret store, creates an engine or opens a session or connection, and the
\* table stays as it is; a request that matches no route and a batch that keeps no
\* record are answered as they are with the variable set
C12_UnconfiguredUse ==
    SecretArnVar \notin environ =>
        /\ table = {}
        /\ \A p \in Procs :
              /\ inv[p].pc \in {"idle", "done"}
              /\ inv[p].log = <<>> /\ ~inv[p].fetched
              /\ (inv[p].pc = "done" /\ inv[p].op # "none")
                    => inv[p].resp = [status |-> 500, body |-> ErrorBody(NoSecretArn)]
              /\ (inv[p].pc = "done" /\ inv[p].op = "none")
                    => \/ inv[p].resp = [status |-> 200, body |-> EmptyBody]
                       \/ inv[p].resp = [status |-> 500, body |-> ErrorBody("ValueError")]
                       \/ inv[p].resp = [status |-> 500, body |-> ErrorBody("JSONDecodeError")]
        /\ s3.log = <<>> /\ s3.fetched = 0 /\ s3.processed = <<>>
        /\ (s3.pc = "done" /\ s3.event.hasRecords /\ C10_Kept(s3.event.Records) # <<>>)
              => s3.resp.status = 500
        /\ (s3.pc = "done" /\ s3.resp.status = 200)
              => s3.resp.body = S3SuccessBody(0)

\* with the variable unset, a create with a complete body was answered 500
C12_Witness ==
    /\ SecretArnVar \notin environ
    /\ \E p \in Procs :
          /\ inv[p].pc = "done" /\ inv[p].op = "create"
          /\ inv[p].httpMethod = "POST" /\ inv[p].path = "/users"
          /\ inv[p].resp = [status |-> 500, body |-> ErrorBody(NoSecretArn)]

\* one of the five {path, method} pairs of the dispatch table
C13_Recognized(path, method) ==
    \/ path = "/users" /\ method \in {"POST", "GET"}
    \/ path = "/users/{id}" /\ method \in {"GET", "PUT", "DELETE"}

\* the invocation p starts ends at once: no operation ran, the secret store was
\* not asked, no engine or session was created, the table is as it was
C13_Silent(p) ==
    /\ inv'[p].pc = "done"
    /\ inv'[p].op = "none"
    /\ ~inv'[p].fetched
    /\ inv'[p].log = <<>>
    /\ UNCHANGED dbVars

\* C13: a {path, method} combination that is not one of the five recognized ones
\* returns 200 with {}, runs no operation, fetches no secret, opens no session and
\* leaves the table unchanged, whatever the path parameters and the body are
C13_Fallthrough ==
    [][\A p \in Procs :
        (/\ Steps(p) /\ inv[p].pc = "idle"
         /\ ~C13_Recognized(inv'[p].path, inv'[p].httpMethod))
        => /\ C13_Silent(p)
           /\ inv'[p].resp = [status |-> 200, body |-> EmptyBody]
    ]_vars

\* C13 as amended: such a combination runs no operation, fetches no secret, opens
\* no session and leaves the table unchanged; it returns 200 with {} when the body
\* is absent or JSON and, on /users/{id}, the path parameter id is present and not
\* empty; it returns 500 when the body is not JSON, and 500 on /users/{id} when the
\* path parameter id is missing or empty
C13_FallthroughChecked ==
    [][\A p \in Procs :
        (/\ Steps(p) /\ inv[p].pc = "idle"
         /\ ~C13_Recognized(inv'[p].path, inv'[p].httpMethod))
        => /\ C13_Silent(p)
           /\ inv'[p].resp =
                 IF ~inv'[p].json
                 THEN [status |-> 500, body |-> ErrorBody("JSONDecodeError")]
                 ELSE IF inv'[p].path = "/users/{id}" /\ inv'[p].id = "missing"
                 THEN [status |-> 500, body |-> ErrorBody("ValueError")]
                 ELSE [status |-> 200, body |-> EmptyBody]
    ]_vars

\* PATCH on /users/{id} with a non-numeric id fell through with 200 and {} while a
\* User was stored
C13_Witness ==
    \E p \in Procs :
        /\ inv[p].pc = "done"
        /\ inv[p].path = "/users/{id}" /\ inv[p].httpMethod = "PATCH"
        /\ inv[p].id = "non-numeric" /\ inv[p].json
        /\ inv[p].resp = [status |-> 200, body |-> EmptyBody]
        /\ table # {}

\* the request the invocation p starts is on /users/{id} with a path parameter id
\* that is not numeric
C14_NonNumeric(p) ==
    /\ Steps(p) /\ inv[p].pc = "idle"
    /\ inv'[p].path = "/users/{id}" /\ inv'[p].id = "non-numeric"

\* C14: a request on /users/{id} whose path id is not numeric returns 500, never
\* 200 or 404, for every method, and neither reads nor changes the table
C14_NonNumericId ==
    [][\A p \in Procs :
        C14_NonNumeric(p)
        => /\ inv'[p].pc = "done" /\ inv'[p].log = <<>>
           /\ inv'[p].resp.status = 500
           /\ UNCHANGED dbVars
    ]_vars

\* C14 as amended: such a request neither reads nor changes the table; with GET,
\* PUT or DELETE it returns 500, never 200 or 404; with any other method the id
\* is not parsed and the request falls through with 200 and {}, or returns 500
\* when its body is not JSON
C14_NonNumericIdParsed ==
    [][\A p \in Procs :
        C14_NonNumeric(p)
        => /\ inv'[p].pc = "done" /\ inv'[p].log = <<>> /\ ~inv'[p].fetched
           /\ UNCHANGED dbVars
           /\ inv'[p].resp =
                 IF ~inv'[p].json
                 THEN [status |-> 500, body |-> ErrorBody("JSONDecodeError")]
                 ELSE IF inv'[p].httpMethod \in {"GET", "PUT", "DELETE"}
                 THEN [status |-> 500, body |-> ErrorBody("ValueError")]
                 ELSE [status |-> 200, body |-> EmptyBody]
    ]_vars

\* DELETE on /users/{id} with a non-numeric id was answered 500 while a User was
\* stored
C14_Witness ==
    \E p \in Procs :
        /\ inv[p].pc = "done"
        /\ inv[p].path = "/users/{id}" /\ inv[p].httpMethod = "DELETE"
        /\ inv[p].id = "non-numeric" /\ inv[p].json
        /\ inv[p].resp = [status |-> 500, body |-> ErrorBody("ValueError")]
        /\ table # {}

\* C15: whenever the handler returns 500 for a create, update or delete request,
\* whichever step raised (also the reload after the operation's own commit, and
\* the scope's final commit), the session was rolled back and the users table is as
\* it was before the request: the step that fails changes no row, and the request
\* had inserted, changed or removed none before it
C15_Atomic ==
    [][\A p \in Procs :
        (/\ Steps(p) /\ inv[p].op \in {"create", "update", "delete"}
         /\ inv'[p].pc = "done" /\ inv'[p].resp.status = 500)
        => /\ table' = table
           /\ Count(inv'[p].log, "Session") = 1 => Count(inv'[p].log, "rollback") = 1
           /\ inv[p].pc = "reload"
                 => /\ inv[p].op = "update"
                    /\ \A c \in {"name", "email"} :
                          inv[p].body[c] \in {Missing, inv[p].loaded[c]}
    ]_vars

====
